---- MODULE Spec2Model ----
(***************************************************************************)
(* Model of the load-injector framework of src/LoadInjector.py: the        *)
(* factory LoadInjector.fromJSON, the caller-side operations inject,       *)
(* is_injector_running, force_close and get_injections, and the worker     *)
(* threads that run SSDLoadInjector.inject_body / RAMLoadInjector           *)
(* .inject_body statement by statement.  Time is in milliseconds.          *)
(***************************************************************************)
EXTENDS Integers, Sequences, FiniteSets, TLC

\* ------------------------------------------------------------------ bounds
\* anomalous samples are drawn only while warning_level is below this level
MaxWarningLevel == 7
\* number of injector objects the caller may obtain from the factory
NumInjectors == 2
\* number of worker threads the caller may launch over all injectors
MaxThreads == 2
\* the clock advances on its own (outside every sleep) only below this time
MaxIdleClock == 1

Injectors == 1..NumInjectors
Threads == 1..MaxThreads

\* ------------------------------------------------------- program constants
\* duration_ms when the description has none (fromJSON of both variants)
DefaultDurationMs == 1000
\* upper end of one simulated operation: random.random() * 0.01 s
SleepMaxMs == 10
\* sleeps the model draws: the shortest and the longest
SleepMs == {0, SleepMaxMs}

\* ------------------------------------------------------------ JSON values
\* A duration_ms value of a description: a number, or something that is not
\* one (a string such as "abc"), which Python cannot compare with an int.
Num(n) == [numeric |-> TRUE, n |-> n]
NotANumber == [numeric |-> FALSE, n |-> 0]

JobKeys == {"type", "tag", "duration_ms"}
SSDTypes == {"SSD", "SSDUsage", "SolidStateDrive"}
RAMTypes == {"RAM", "RAMUsage", "Memory"}

\* A description is None (null = TRUE) or a dict: its key set and the value of
\* each key it has (a key it lacks carries a fixed filler).
NullJob == [null |-> TRUE, keys |-> {}, type |-> "", tag |-> "", duration_ms |-> Num(0)]
Dict(ks, ty, tg, d) ==
    [null |-> FALSE, keys |-> ks,
     type |-> IF "type" \in ks THEN ty ELSE "",
     tag |-> IF "tag" \in ks THEN tg ELSE "",
     duration_ms |-> IF "duration_ms" \in ks THEN d ELSE Num(0)]

TypeValues == SSDTypes \cup RAMTypes \cup {"ssd", "memory", "Unknown"}
TagValues == {"t1"}
DurationValues == {Num(5), NotANumber}

\* every description over the sample values
Jobs ==
    {NullJob} \cup
    {Dict(ks, ty, tg, d) : ks \in SUBSET JobKeys, ty \in TypeValues,
                           tg \in TagValues, d \in DurationValues}

\* the injectors that are run: a description and the outcome of the init()
\* hook (FALSE: the hook has cleared self.valid)
RunInputs ==
    { <<NullJob, TRUE>>,
      <<Dict({"type", "tag", "duration_ms"}, "SSD", "t1", Num(5)), TRUE>>,
      <<Dict({"type", "duration_ms"}, "Memory", "", Num(0)), TRUE>>,
      <<Dict({"type", "duration_ms"}, "RAMUsage", "", NotANumber), TRUE>>,
      <<Dict({"type", "duration_ms"}, "Memory", "", Num(0)), FALSE>> }

\* ----------------------------------------------------------------- factory
NoInjector == [cls |-> "None", tag |-> "", duration_ms |-> Num(0)]

SSDLoadInjector_fromJSON(job) ==
    [cls |-> "SSDLoadInjector",
     tag |-> IF "tag" \in job.keys THEN job.tag ELSE "",
     duration_ms |-> IF "duration_ms" \in job.keys THEN job.duration_ms
                     ELSE Num(DefaultDurationMs)]

\* the memory variant's fromJSON dropping the description's tag
RAMLoadInjector_fromJSON_notag(job) ==
    [cls |-> "RAMLoadInjector",
     tag |-> "",
     duration_ms |-> IF "duration_ms" \in job.keys THEN job.duration_ms
                     ELSE Num(DefaultDurationMs)]

RAMLoadInjector_fromJSON(job) ==
    [cls |-> "RAMLoadInjector",
     tag |-> IF "tag" \in job.keys THEN job.tag ELSE "",
     duration_ms |-> IF "duration_ms" \in job.keys THEN job.duration_ms
                     ELSE Num(DefaultDurationMs)]

\* fromJSON with a case-insensitive match of the type
fromJSON_anycase(job) ==
    IF ~job.null /\ "type" \in job.keys
    THEN IF job.type \in SSDTypes \cup {"ssd"} THEN SSDLoadInjector_fromJSON(job)
         ELSE IF job.type \in RAMTypes \cup {"memory"} THEN RAMLoadInjector_fromJSON(job)
         ELSE NoInjector
    ELSE NoInjector

fromJSON(job) ==
    IF ~job.null /\ "type" \in job.keys
    THEN IF job.type \in SSDTypes THEN SSDLoadInjector_fromJSON(job)
         ELSE IF job.type \in RAMTypes THEN RAMLoadInjector_fromJSON(job)
         ELSE NoInjector
    ELSE NoInjector

\* ------------------------------------------------------------------- state
VARIABLES
    now,                \* the wall clock read by current_ms()
    job,                \* job[i]: the description given to the factory for i
    cls,                \* cls[i]: "NotCalled", "None" or the class of object i
    valid, tag, duration_ms, inj_thread, completed_flag,   \* fields of object i
    injected_interval,  \* injected_interval[i]: reference to a list object
    heap,               \* heap[o]: the content of list object o
    pc,                 \* pc[w]: "unused", the line thread w is about to run,
                        \* "done" (returned) or "raised" (died on an exception)
    owner,              \* owner[w]: the injector whose inject_body w runs
    start_time,         \* start_time[w]: the local of inject_body
    startedIdle,        \* startedIdle[w]: no thread of owner[w] was live at inject()
    call,               \* the caller's most recent query and what it returned
    \* src/anomaly_detector.py, the SystemMonitorInjector object
    mon_state,          \* "new", "monitoring" (inside the loop) or "closed"
    warning_threshold, warning_level, last_printed_length, to_remove,
    is_anomaly,         \* the last sample: "none" yet, "anomaly" or "normal"
    logged,             \* _log_warning was called in the last iteration
    peak,               \* warning_level right after the last anomalous sample
    normals             \* normal samples since then that found the level above 0

config == <<job, cls, valid, tag, duration_ms>>
fields == <<inj_thread, completed_flag, injected_interval, heap>>
threads == <<pc, owner, start_time, startedIdle>>
monitor == <<mon_state, warning_threshold, warning_level, last_printed_length,
             to_remove, is_anomaly, logged, peak, normals>>
vars == <<now, job, cls, valid, tag, duration_ms, inj_thread, completed_flag,
          injected_interval, heap, pc, owner, start_time, startedIdle, call,
          mon_state, warning_threshold, warning_level, last_printed_length,
          to_remove, is_anomaly, logged, peak, normals>>

current_ms == now

\* call: the caller's most recent force_close or get_injections call; ref is
\* the list object get_injections handed back (0: none)
NoCall == [op |-> "none", inst |-> 0, ref |-> 0]
Called(o, i, r) == [op |-> o, inst |-> i, ref |-> r]

Live == {"L102", "L103", "L106", "L109", "L113", "L115", "L116"}
ThreadsOf(i) == {w \in Threads : owner[w] = i}
LiveThreads(i) == {w \in ThreadsOf(i) : pc[w] \in Live}
IsInjector(i) == cls[i] \in {"SSDLoadInjector", "RAMLoadInjector"}
Ledger(i) == heap[injected_interval[i]]

Init ==
    /\ now = 0
    /\ job = [i \in Injectors |-> NullJob]
    /\ cls = [i \in Injectors |-> "NotCalled"]
    /\ valid = [i \in Injectors |-> FALSE]
    /\ tag = [i \in Injectors |-> ""]
    /\ duration_ms = [i \in Injectors |-> Num(0)]
    /\ inj_thread = [i \in Injectors |-> 0]
    /\ completed_flag = [i \in Injectors |-> TRUE]
    /\ injected_interval = [i \in Injectors |-> i]
    /\ heap = [o \in Injectors |-> <<>>]
    /\ pc = [w \in Threads |-> "unused"]
    /\ owner = [w \in Threads |-> 0]
    /\ start_time = [w \in Threads |-> 0]
    /\ startedIdle = [w \in Threads |-> FALSE]
    /\ call = NoCall
    /\ mon_state = "new"
    /\ warning_threshold = 0
    /\ warning_level = 0
    /\ last_printed_length = 0
    /\ to_remove = 1
    /\ is_anomaly = "none"
    /\ logged = FALSE
    /\ peak = 0
    /\ normals = 0

\* --------------------------------------------------------- construction
\* __init__ with the list kept in one place for every object (a class-level
\* injected_interval = [])
Construct_shared_list(i, r, setupOk) ==
    /\ cls' = [cls EXCEPT ![i] = r.cls]
    /\ valid' = [valid EXCEPT ![i] = (r.cls # "None") /\ setupOk]
    /\ tag' = [tag EXCEPT ![i] = r.tag]
    /\ duration_ms' = [duration_ms EXCEPT ![i] = r.duration_ms]
    /\ inj_thread' = [inj_thread EXCEPT ![i] = 0]
    /\ completed_flag' = [completed_flag EXCEPT ![i] = TRUE]
    /\ injected_interval' = [injected_interval EXCEPT ![i] = 1]
    /\ UNCHANGED heap

\* LoadInjector.__init__ as run for the object r the factory builds.  setupOk
\* is the outcome of the init() hook, the one place where a variant can clear
\* self.valid (the two variants of the repository do not override it).
Construct(i, r, setupOk) ==
    /\ cls' = [cls EXCEPT ![i] = r.cls]
    /\ valid' = [valid EXCEPT ![i] = (r.cls # "None") /\ setupOk]
    /\ tag' = [tag EXCEPT ![i] = r.tag]
    /\ duration_ms' = [duration_ms EXCEPT ![i] = r.duration_ms]
    /\ inj_thread' = [inj_thread EXCEPT ![i] = 0]
    /\ completed_flag' = [completed_flag EXCEPT ![i] = TRUE]
    /\ injected_interval' = [injected_interval EXCEPT ![i] = i]
    /\ heap' = [heap EXCEPT ![i] = <<>>]

\* the caller obtains object i from the factory
Create(i, j, setupOk) ==
    /\ cls[i] = "NotCalled"
    /\ \A k \in Injectors : k < i => cls[k] # "NotCalled"
    /\ job' = [job EXCEPT ![i] = j]
    /\ Construct(i, fromJSON(j), setupOk)
    /\ UNCHANGED <<now, threads, call, monitor>>

\* ------------------------------------------------------- caller operations
FreeThread == CHOOSE w \in Threads : pc[w] = "unused" /\ \A v \in Threads : pc[v] = "unused" => w <= v

inject(i) ==
    /\ IsInjector(i)
    /\ \E w \in Threads : pc[w] = "unused"
    /\ LET w == FreeThread IN
        /\ inj_thread' = [inj_thread EXCEPT ![i] = w]
        /\ pc' = [pc EXCEPT ![w] = "L102"]
        /\ owner' = [owner EXCEPT ![w] = i]
        /\ startedIdle' = [startedIdle EXCEPT ![w] = (LiveThreads(i) = {})]
    /\ UNCHANGED <<now, config, monitor, completed_flag, injected_interval, heap, start_time, call>>

\* a read of one field: what the caller's poll returns in the current state
is_injector_running(i) == ~completed_flag[i]

\* force_close that ends the run by setting the flag
force_close_stops(i) ==
    /\ IsInjector(i)
    /\ call' = Called("force_close", i, 0)
    /\ completed_flag' = [completed_flag EXCEPT ![i] = TRUE]
    /\ UNCHANGED <<now, config, monitor, inj_thread, injected_interval, heap, threads>>

force_close(i) ==
    /\ IsInjector(i)
    /\ call' = Called("force_close", i, 0)
    /\ UNCHANGED <<now, config, monitor, fields, threads>>

get_injections(i) ==
    /\ IsInjector(i)
    /\ call' = Called("get_injections", i, injected_interval[i])
    /\ UNCHANGED <<now, config, monitor, fields, threads>>

\* ------------------------------------------------------------- inject_body
\* the dict literal with its two values exchanged
Interval_swapped(s, e) == [start |-> e, end |-> s]

Interval(s, e) == [start |-> s, end |-> e]

L102(w) ==
    /\ pc[w] = "L102"
    /\ completed_flag' = [completed_flag EXCEPT ![owner[w]] = FALSE]
    /\ pc' = [pc EXCEPT ![w] = "L103"]
    /\ UNCHANGED <<now, config, monitor, inj_thread, injected_interval, heap, owner,
                   start_time, startedIdle, call>>

L103(w) ==
    /\ pc[w] = "L103"
    /\ start_time' = [start_time EXCEPT ![w] = current_ms]
    /\ pc' = [pc EXCEPT ![w] = "L106"]
    /\ UNCHANGED <<now, config, monitor, fields, owner, startedIdle, call>>

\* the loop test; comparing an int with a non-number raises TypeError, which
\* nothing catches: the thread ends there
L106(w) ==
    /\ pc[w] = "L106"
    /\ LET d == duration_ms[owner[w]] IN
         pc' = [pc EXCEPT ![w] =
                  IF ~d.numeric THEN "raised"
                  ELSE IF current_ms - start_time[w] < d.n THEN "L109"
                  ELSE "L115"]
    /\ UNCHANGED <<now, config, monitor, fields, owner, start_time, startedIdle, call>>

\* time.sleep(random.random() * 0.01), the read operation.  A sleep is one
\* step that moves the clock by its length; a sleep of 0 taken after another
\* thread's sleep stands for two sleeps that overlap.
L109(w, s) ==
    /\ pc[w] = "L109"
    /\ now' = now + s
    /\ pc' = [pc EXCEPT ![w] = "L113"]
    /\ UNCHANGED <<config, monitor, fields, owner, start_time, startedIdle, call>>

\* the write operation sleeping up to 0.1 s instead of 0.01 s
L113_tenfold(w, s) ==
    /\ pc[w] = "L113"
    /\ now' = now + 10 * s
    /\ pc' = [pc EXCEPT ![w] = "L106"]
    /\ UNCHANGED <<config, monitor, fields, owner, start_time, startedIdle, call>>

\* time.sleep(random.random() * 0.01), the write operation
L113(w, s) ==
    /\ pc[w] = "L113"
    /\ now' = now + s
    /\ pc' = [pc EXCEPT ![w] = "L106"]
    /\ UNCHANGED <<config, monitor, fields, owner, start_time, startedIdle, call>>

\* line 115 inserting at the front: injected_interval.insert(0, ...)
L115_insert_front(w) ==
    /\ pc[w] = "L115"
    /\ heap' = [heap EXCEPT ![injected_interval[owner[w]]] =
                  <<Interval(start_time[w], current_ms)>> \o @]
    /\ pc' = [pc EXCEPT ![w] = "L116"]
    /\ UNCHANGED <<now, config, monitor, inj_thread, completed_flag, injected_interval,
                   owner, start_time, startedIdle, call>>

\* line 115 recording the run twice
L115_twice(w) ==
    /\ pc[w] = "L115"
    /\ heap' = [heap EXCEPT ![injected_interval[owner[w]]] =
                  Append(Append(@, Interval(start_time[w], current_ms)),
                         Interval(start_time[w], current_ms))]
    /\ pc' = [pc EXCEPT ![w] = "L116"]
    /\ UNCHANGED <<now, config, monitor, inj_thread, completed_flag, injected_interval,
                   owner, start_time, startedIdle, call>>

\* line 116 alone, the append of line 115 lost
L115_flag_only(w) ==
    /\ pc[w] = "L115"
    /\ completed_flag' = [completed_flag EXCEPT ![owner[w]] = TRUE]
    /\ pc' = [pc EXCEPT ![w] = "L116"]
    /\ UNCHANGED <<now, config, monitor, inj_thread, injected_interval, heap, owner,
                   start_time, startedIdle, call>>

L115(w) ==
    /\ pc[w] = "L115"
    /\ heap' = [heap EXCEPT ![injected_interval[owner[w]]] =
                  Append(@, Interval(start_time[w], current_ms))]
    /\ pc' = [pc EXCEPT ![w] = "L116"]
    /\ UNCHANGED <<now, config, monitor, inj_thread, completed_flag, injected_interval,
                   owner, start_time, startedIdle, call>>

\* line 116 writing False instead of True
L116_flag_false(w) ==
    /\ pc[w] = "L116"
    /\ completed_flag' = [completed_flag EXCEPT ![owner[w]] = FALSE]
    /\ pc' = [pc EXCEPT ![w] = "done"]
    /\ UNCHANGED <<now, config, monitor, inj_thread, injected_interval, heap, owner,
                   start_time, startedIdle, call>>

L116(w) ==
    /\ pc[w] = "L116"
    /\ completed_flag' = [completed_flag EXCEPT ![owner[w]] = TRUE]
    /\ pc' = [pc EXCEPT ![w] = "done"]
    /\ UNCHANGED <<now, config, monitor, inj_thread, injected_interval, heap, owner,
                   start_time, startedIdle, call>>

inject_body(w) ==
    \/ L102(w)
    \/ L103(w)
    \/ L106(w)
    \/ \E s \in SleepMs : L109(w, s)
    \/ \E s \in SleepMs : L113(w, s)
    \/ L115(w)
    \/ L116(w)

SSDLoadInjector_inject_body(w) ==
    /\ pc[w] \in Live
    /\ cls[owner[w]] = "SSDLoadInjector"
    /\ inject_body(w)

RAMLoadInjector_inject_body(w) ==
    /\ pc[w] \in Live
    /\ cls[owner[w]] = "RAMLoadInjector"
    /\ inject_body(w)

\* the clock moves on between any two statements
Tick ==
    /\ now < MaxIdleClock
    /\ now' = now + 1
    /\ UNCHANGED <<config, monitor, fields, threads, call>>

\* ------------------------------------------------- the anomaly detector
\* warning thresholds the detector is built with (5 is the default)
Thresholds == {0, 2, 5}
\* len(str(datetime.datetime.now())): without and with microseconds
DatetimeLens == {19, 26}

Max0(n) == IF n > 0 THEN n ELSE 0
Digits(n) == IF n < 10 THEN 1 ELSE IF n < 100 THEN 2 ELSE 3
\* len(f'[{now}] ' + f'WARNING!!! (Level {level})')
WarningLineLen(dl, level) == 1 + dl + 2 + 18 + Digits(level) + 1

SystemMonitorInjector_init(th) ==
    /\ mon_state = "new"
    /\ mon_state' = "monitoring"
    /\ warning_threshold' = th
    /\ warning_level' = 0
    /\ last_printed_length' = 0
    /\ to_remove' = 1
    /\ UNCHANGED <<is_anomaly, logged, peak, normals>>
    /\ UNCHANGED <<now, config, fields, threads, call>>

\* the test of _check_and_print_warning with >= for >
ShouldLog_ge(level, th) == level >= th

ShouldLog(level, th) == level > th

\* the else branch doubling to_remove whatever the level
NextToRemove_always_double(level, tr) == tr * 2

\* line 81: the step taken off by the next normal sample
NextToRemove(level, tr) == IF level > 0 THEN tr * 2 ELSE 1

\* one iteration of the loop of monitor_and_detect: a is the prediction of
\* _detect_anomaly, dl the length of the time stamp of a logged line
monitor_and_detect(a, dl) ==
    /\ mon_state = "monitoring"
    /\ a => warning_level < MaxWarningLevel
    /\ LET level == IF a THEN warning_level + 1
                    ELSE Max0(warning_level - to_remove) IN
        /\ warning_level' = level
        /\ to_remove' = IF a THEN 1 ELSE NextToRemove(level, to_remove)
        /\ is_anomaly' = IF a THEN "anomaly" ELSE "normal"
        /\ logged' = ShouldLog(level, warning_threshold)
        /\ last_printed_length' = IF ShouldLog(level, warning_threshold)
                                  THEN WarningLineLen(dl, level) ELSE 0
        /\ peak' = IF a THEN level ELSE peak
        /\ normals' = IF a THEN 0
                      ELSE IF warning_level > 0 THEN normals + 1 ELSE normals
    /\ UNCHANGED <<mon_state, warning_threshold>>
    /\ UNCHANGED <<now, config, fields, threads, call>>

\* monitor_system or _detect_anomaly raises: the loop ends, the logs are closed
monitor_and_detect_except ==
    /\ mon_state = "monitoring"
    /\ mon_state' = "closed"
    /\ UNCHANGED <<warning_threshold, warning_level, last_printed_length,
                   to_remove, is_anomaly, logged, peak, normals>>
    /\ UNCHANGED <<now, config, fields, threads, call>>

MonitorNext ==
    \/ \E th \in Thresholds : SystemMonitorInjector_init(th)
    \/ \E a \in BOOLEAN, dl \in DatetimeLens : monitor_and_detect(a, dl)
    \/ monitor_and_detect_except

SpecMonitor == Init /\ [][MonitorNext]_vars

\* the steps of the caller of injector i and of the workers of injector i
Step(i) ==
    \/ \E in \in RunInputs : Create(i, in[1], in[2])
    \/ inject(i)
    \/ force_close(i)
    \/ get_injections(i)
    \/ \E w \in ThreadsOf(i) : SSDLoadInjector_inject_body(w)
    \/ \E w \in ThreadsOf(i) : RAMLoadInjector_inject_body(w)

\* one injector, its caller and its workers
Next == Step(1) \/ Tick

Spec == Init /\ [][Next]_vars

\* Scheduling: a started thread keeps being scheduled, so a live worker takes
\* its next step; and the clock keeps advancing, so a worker that sleeps again
\* and again sleeps a positive time at some point.
WorkerStep(w) == SSDLoadInjector_inject_body(w) \/ RAMLoadInjector_inject_body(w)

Fairness ==
    \A w \in Threads :
        /\ WF_vars(WorkerStep(w))
        /\ SF_vars(L109(w, SleepMaxMs))

SpecLive == Init /\ [][Next]_vars /\ Fairness

\* one injector whose clock moves in the sleeps of the work body only
NextSleep == Step(1)

SpecSleep == Init /\ [][NextSleep]_vars

\* every injector at once
NextAll == (\E i \in Injectors : Step(i)) \/ Tick

SpecAll == Init /\ [][NextAll]_vars


\* the factory alone, over every description of Jobs
FactoryNext ==
    \E i \in Injectors, j \in Jobs, ok \in BOOLEAN : Create(i, j, ok)

SpecFactory == Init /\ [][FactoryNext]_vars

\* ------------------------------------------------------------------ claims
Started(i) == \E w \in Threads : owner[w] = i
InBody(i) == {w \in Threads : owner[w] = i /\ pc[w] \in Live \ {"L102"}}
Completed(i) == {w \in Threads : owner[w] = i /\ pc[w] \in {"L116", "done"}}
Last(s) == s[Len(s)]

\* C1: at most one worker of an injector executes the work body at any time,
\* whatever sequence of inject() calls the caller makes.
C1_AtMostOneWorker ==
    \A i \in Injectors : valid[i] => Cardinality(InBody(i)) <= 1

\* C2: for a duration_ms >= 0, once the caller has called inject() and then
\* sees is_injector_running() return false, the ledger is non-empty and its
\* most recent entry has end - start >= duration_ms.
C2_AwaitedRunRecorded ==
    \A i \in Injectors :
        ( /\ IsInjector(i) /\ valid[i]
          /\ duration_ms[i].numeric /\ duration_ms[i].n >= 0
          /\ Started(i)
          /\ ~is_injector_running(i) )
        => /\ Len(Ledger(i)) > 0
           /\ Last(Ledger(i)).end - Last(Ledger(i)).start >= duration_ms[i].n

\* C3: the factory returns a disk-like injector exactly for a non-null
\* description whose type is SSD, SSDUsage or SolidStateDrive, a memory-like
\* one exactly for RAM, RAMUsage or Memory, and None for a null description,
\* a description without type and every other type (case-sensitive).
C3_FactoryDispatch ==
    \A i \in Injectors :
        cls[i] # "NotCalled" =>
            LET hasType == ~job[i].null /\ "type" \in job[i].keys IN
            /\ cls[i] = "SSDLoadInjector" <=>
                   (hasType /\ job[i].type \in {"SSD", "SSDUsage", "SolidStateDrive"})
            /\ cls[i] = "RAMLoadInjector" <=>
                   (hasType /\ job[i].type \in {"RAM", "RAMUsage", "Memory"})
            /\ cls[i] = "None" <=>
                   ( \/ job[i].null
                     \/ "type" \notin job[i].keys
                     \/ job[i].type \notin {"SSD", "SSDUsage", "SolidStateDrive",
                                            "RAM", "RAMUsage", "Memory"} )

C3_Witness ==
    /\ cls[1] = "SSDLoadInjector" /\ job[1].type = "SolidStateDrive"
    /\ cls[2] = "None" /\ ~job[2].null /\ job[2].type = "ssd"

C5_FaultEndsNotRunning ==
    \A i \in Injectors :
        ( /\ valid[i]
          /\ \E w \in Threads : owner[w] = i /\ pc[w] = "raised"
          /\ LiveThreads(i) = {} )
        => ~is_injector_running(i)

\* C6: force_close() changes nothing in any state (the clock, the
\* configuration, the fields, the ledger and the workers are as before), and
\* every worker that returned has recorded the interval of its run.
C6_ForceCloseNoOp ==
    /\ [][ (call'.op = "force_close" /\ call' # call)
           => UNCHANGED <<now, config, monitor, fields, threads>> ]_vars
    /\ [](\A w \in Threads :
            pc[w] = "done" =>
                \E k \in 1..Len(Ledger(owner[w])) :
                    Ledger(owner[w])[k].start = start_time[w])

C6_Witness ==
    /\ call.op = "force_close"
    /\ \E w \in Threads :
        /\ owner[w] = call.inst
        /\ pc[w] = "done"
        /\ Len(Ledger(call.inst)) = 1
        /\ completed_flag[call.inst]

\* C7: after inject() on a valid injector that had no run in progress,
\* is_injector_running() is true from the return of inject() until that run
\* completes.
C7_RunningFromStartReturn ==
    \A w \in Threads :
        (pc[w] \in Live /\ startedIdle[w] /\ valid[owner[w]])
        => is_injector_running(owner[w])

\* C8: the ledger of an injector has exactly one entry per work-body run
\* that has completed (it is empty before any inject()).
C8_OneEntryPerCompletedRun ==
    \A i \in Injectors : Len(Ledger(i)) = Cardinality(Completed(i))

C8_Witness ==
    \E i \in Injectors :
        /\ Len(Ledger(i)) = 2
        /\ Cardinality(Completed(i)) = 2

\* C9: every ledger entry of every injector has end >= start.
C9_EndNotBeforeStart ==
    \A i \in Injectors : \A k \in 1..Len(Ledger(i)) :
        Ledger(i)[k].end >= Ledger(i)[k].start

C9_Witness ==
    \E i \in Injectors : \E k \in 1..Len(Ledger(i)) :
        Ledger(i)[k].end - Ledger(i)[k].start >= duration_ms[i].n
        /\ duration_ms[i].n > 0

\* C10: the list get_injections() returned is a snapshot: while the caller
\* holds it, no step of the program changes its content.
C10_ReturnedListIsSnapshot ==
    [][ (call.ref # 0 /\ valid[call.inst] /\ call' = call)
        => heap'[call.ref] = heap[call.ref] ]_vars

\* C11: an injector the factory builds has the description's tag if the
\* description has one and "" otherwise, and the description's duration_ms if
\* it has one and 1000 otherwise, whichever the variant.
C11_TagAndDurationDefaults ==
    \A i \in Injectors :
        IsInjector(i) =>
            /\ tag[i] = (IF "tag" \in job[i].keys THEN job[i].tag ELSE "")
            /\ duration_ms[i] = (IF "duration_ms" \in job[i].keys
                                 THEN job[i].duration_ms
                                 ELSE [numeric |-> TRUE, n |-> 1000])

C11_Witness ==
    /\ cls[1] = "SSDLoadInjector" /\ job[1].keys = {"type"}
    /\ tag[1] = "" /\ duration_ms[1].n = 1000
    /\ cls[2] = "RAMLoadInjector" /\ job[2].keys = JobKeys
    /\ tag[2] = "t1" /\ duration_ms[2].n = 5

\* C12: a worker that has set completed_flag back to True (its run reads as
\* completed) has its ledger entry in the ledger already.
C12_AppendBeforeCompleted ==
    \A w \in Threads :
        pc[w] = "done" =>
            /\ Len(Ledger(owner[w])) >= Cardinality({v \in ThreadsOf(owner[w]) : pc[v] = "done"})
            /\ \E k \in 1..Len(Ledger(owner[w])) :
                /\ Ledger(owner[w])[k].start = start_time[w]
                /\ Ledger(owner[w])[k].end >= start_time[w]

C12_Witness ==
    \E w \in Threads :
        /\ pc[w] = "done"
        /\ completed_flag[owner[w]]
        /\ Len(Ledger(owner[w])) = 1
        /\ valid[owner[w]]

OnlyRun(i) ==
    /\ IsInjector(i)
    /\ duration_ms[i].numeric
    /\ Cardinality({w \in Threads : pc[w] # "unused"}) = 1
    /\ Len(Ledger(i)) = 1
Overshoot(i) == (Last(Ledger(i)).end - Last(Ledger(i)).start) - duration_ms[i].n

\* C14 (as claimed): when time advances only through the work body's own
\* sleeps, the overshoot (end - start) - duration_ms of a completed run is at
\* most one sub-operation's maximum, 10 ms.
C14_OvershootOneSleep ==
    \A i \in Injectors : OnlyRun(i) => Overshoot(i) <= 10

\* C14 (amended): when time advances only through the work body's own sleeps,
\* the overshoot of a completed run is at most the two sub-operations of one
\* loop iteration, 2 * 10 ms: the loop test is made once per iteration.
C14_OvershootOneIteration ==
    \A i \in Injectors : OnlyRun(i) => Overshoot(i) <= 20

C14_Witness ==
    \E i \in Injectors : OnlyRun(i) /\ Overshoot(i) = 15

\* C15: whenever a worker of a valid injector is inside the loop of its work
\* body, is_injector_running() returns true for that injector.
C15_LoopImpliesRunning ==
    \A w \in Threads :
        (pc[w] \in {"L106", "L109", "L113"} /\ valid[owner[w]])
        => is_injector_running(owner[w])

\* C16: the ledger of an injector is append-only: across every step (inject,
\* force_close, get_injections, a worker's statement) the ledger before the
\* step is a prefix of the ledger after it.
C16_LedgerAppendOnly ==
    [][ \A i \in Injectors :
          /\ Len(heap'[injected_interval'[i]]) >= Len(Ledger(i))
          /\ SubSeq(heap'[injected_interval'[i]], 1, Len(Ledger(i))) = Ledger(i) ]_vars

C16_Witness ==
    \E i \in Injectors :
        /\ Len(Ledger(i)) = 2
        /\ Ledger(i)[1] # Ledger(i)[2]
        /\ call.op = "get_injections" /\ call.inst = i

\* C17: the intervals of an injector's ledger never overlap: each entry
\* starts no earlier than the entry before it ends.
C17_IntervalsDisjoint ==
    \A i \in Injectors :
        valid[i] =>
            \A k \in 1..(Len(Ledger(i)) - 1) :
                Ledger(i)[k + 1].start >= Ledger(i)[k].end

\* C18: injectors share no mutable state: the run state and the ledger of an
\* injector change only in a step of a worker of that injector, so no step of
\* another injector's caller or worker changes them.
C18_InstancesIsolated ==
    [][ \A j \in Injectors :
          ( \/ completed_flag'[j] # completed_flag[j]
            \/ heap'[injected_interval'[j]] # Ledger(j) )
          => \E w \in Threads : owner[w] = j /\ pc'[w] # pc[w] ]_vars

C18_Witness ==
    /\ IsInjector(1) /\ IsInjector(2)
    /\ Len(Ledger(1)) = 1 /\ completed_flag[1]
    /\ Len(Ledger(2)) = 0 /\ ~completed_flag[2]
    /\ \E w \in Threads : owner[w] = 2 /\ pc[w] = "L115"

\* C19: after every iteration of the monitoring loop, whatever the
\* predictions were, warning_level >= 0 and to_remove >= 1, to_remove is 1
\* whenever warning_level is 0, and to_remove is 1 right after an anomalous
\* sample.
C19_LevelAndStepBounds ==
    /\ warning_level >= 0
    /\ to_remove >= 1
    /\ (warning_level = 0 => to_remove = 1)
    /\ (is_anomaly = "anomaly" => to_remove = 1)

C19_Witness ==
    /\ is_anomaly = "normal"
    /\ peak >= 4
    /\ normals >= 3
    /\ warning_level = 0
    /\ to_remove = 1

RECURSIVE Pow2(_)
Pow2(n) == IF n = 0 THEN 1 ELSE 2 * Pow2(n - 1)

\* C20: after an anomalous sample has left the level at L (peak), n normal
\* samples in a row have taken 1 + 2 + ... + 2^(n-1) off it, clamped at 0, the
\* next one takes 2^n, the level is 0 after at most L of them, and a warning
\* is logged in an iteration exactly when the updated warning_level is above
\* warning_threshold.
C20_DecayAndLogging ==
    /\ warning_level = Max0(peak - (Pow2(normals) - 1))
    /\ (warning_level > 0 => to_remove = Pow2(normals))
    /\ normals <= peak
    /\ (is_anomaly # "none" => (logged <=> warning_level > warning_threshold))

C20_Witness ==
    /\ peak = 7
    /\ normals = 2
    /\ warning_level = 4
    /\ warning_threshold = 2
    /\ logged

====
